---- MODULE Spec2Model ----
(***************************************************************************)
(* Model of the Pocket API client of src/src/lib.rs: the typed decoding of *)
(* /get responses (parse_all_response), the one-page read (Client::get),   *)
(* the pagination loop (Client::list_all), the batch dispatch              *)
(* (Client::modify and its wrappers) and the transport (Client::request).  *)
(*                                                                         *)
(* An action runs the client from one suspension point (.await on the      *)
(* transport) to the next; the server's answer is the input of the action  *)
(* that resumes the call.                                                  *)
(***************************************************************************)
EXTENDS Integers, Sequences, FiniteSets, TLC

\* ------------------------------------------------------------------------
\* Bounds of the model
\* ------------------------------------------------------------------------

\* the server answers at most this many Parsed pages to one list_all call
MaxPages == 2

\* at most this many ids / urls in one batch handed to a modify wrapper
MaxBatch == 2

\* at most this many pieces in the path of a URL handed to cleanup_url
MaxPathLen == 4

\* ------------------------------------------------------------------------
\* Program constants
\* ------------------------------------------------------------------------

DEFAULT_COUNT == 5000

ENDPOINT == "https://getpocket.com/v3"

\* width of a u32 (the type of offset, count and DEFAULT_COUNT)
U32Bits == 32

\* ------------------------------------------------------------------------
\* Option<T>
\* ------------------------------------------------------------------------

None == [some |-> FALSE]

Some(v) == [some |-> TRUE, v |-> v]

\* ------------------------------------------------------------------------
\* Wire format of the entries of a /get response
\* ------------------------------------------------------------------------

\* the item ids (and `list` keys) the modelled server uses
ItemIds == {"1", "2"}

\* an entry without a usable (string) item_id field
NoId == "absent"

\* An entry of `list` on the wire: its item_id field and whether the other
\* fields are those of a complete Item ("full") or only the few fields the
\* server sends for an item to be deleted ("minimal").
WireEntries ==
    {[item_id |-> i, shape |-> s] : i \in ItemIds, s \in {"full", "minimal"}}
        \cup {[item_id |-> NoId, shape |-> "minimal"]}

\* a JSON string
JsonString(s) == [t |-> "string", s |-> s]

\* JSON values a server may put in a field that carries a boolean
BoolWireValues ==
    {JsonString(s) : s \in {"0", "1", "", "2", "01", "true"}}
        \cup {[t |-> "number", n |-> n] : n \in {0, 1}}
        \cup {[t |-> "bool", b |-> TRUE], [t |-> "null"]}

\* variant of deserialize_string_to_bool: every string but "0" is true
deserialize_string_to_bool_Lenient(v) ==
    IF v.t # "string"
    THEN [ok |-> FALSE, err |-> "invalid type"]
    ELSE [ok |-> TRUE, val |-> v.s # "0"]

\* deserialize_string_to_bool: String::deserialize fails on a value that is
\* not a string, then the match on the text
deserialize_string_to_bool(v) ==
    IF v.t # "string"
    THEN [ok |-> FALSE, err |-> "invalid type"]
    ELSE CASE v.s = "0" -> [ok |-> TRUE, val |-> FALSE]
           [] v.s = "1" -> [ok |-> TRUE, val |-> TRUE]
           [] OTHER -> [ok |-> FALSE, err |-> "invalid value"]

\* serialize_bool_to_string
serialize_bool_to_string(b) == JsonString(IF b THEN "1" ELSE "0")

\* serde's derived Deserialize for struct Item: every non-Option field must
\* be present and well formed
DeserializeItem(w) ==
    IF w.item_id # NoId /\ w.shape = "full"
    THEN [ok |-> TRUE, val |-> [type |-> "Item", item_id |-> w.item_id]]
    ELSE [ok |-> FALSE]

\* serde's derived Deserialize for struct DeletedItem: only item_id is
\* required, other fields are ignored
DeserializeDeletedItem(w) ==
    IF w.item_id # NoId
    THEN [ok |-> TRUE, val |-> [type |-> "DeletedItem", item_id |-> w.item_id]]
    ELSE [ok |-> FALSE]

\* variant of DeserializeItemOrDeletedItem: DeletedItem is tried first
DeserializeItemOrDeletedItem_DeletedFirst(w) ==
    IF DeserializeDeletedItem(w).ok THEN DeserializeDeletedItem(w)
    ELSE IF DeserializeItem(w).ok THEN DeserializeItem(w)
    ELSE [ok |-> FALSE]

\* #[serde(untagged)] enum ItemOrDeletedItem: the variants are tried in
\* declaration order
DeserializeItemOrDeletedItem(w) ==
    IF DeserializeItem(w).ok THEN DeserializeItem(w)
    ELSE IF DeserializeDeletedItem(w).ok THEN DeserializeDeletedItem(w)
    ELSE [ok |-> FALSE]

\* ------------------------------------------------------------------------
\* The fields of an entry
\* ------------------------------------------------------------------------

\* a field the entry does not have
Absent == [t |-> "absent"]

\* serde_with::DisplayFromStr for u64: a string that parses as u64
DisplayFromStr(v) ==
    IF v.t = "string" /\ v.s \in {"0", "12"}
    THEN [ok |-> TRUE]
    ELSE [ok |-> FALSE]

\* An entry of `list` with its fields spelled out: item_id, is_article (and
\* is_index, decoded alike), word_count (and the other DisplayFromStr
\* fields), and whether the remaining fields without Option are all there
\* and well formed. An entry may also not be a JSON object at all.
FieldEntries ==
    [t : {"object"},
     item_id : {JsonString("1"), [t |-> "number", n |-> 1], Absent},
     is_article : {JsonString("1"), JsonString("2"), Absent},
     word_count : {JsonString("12"), JsonString("x"), [t |-> "number", n |-> 12]},
     rest : {"present", "missing"}]
        \cup {JsonString("1")}

\* item_id: ItemId, a String
HasStringItemId(e) == e.t = "object" /\ e.item_id.t = "string"

\* the rules of the fields of struct Item
ItemFieldRules(e) ==
    /\ HasStringItemId(e)
    /\ deserialize_string_to_bool(e.is_article).ok
    /\ DisplayFromStr(e.word_count).ok
    /\ e.rest = "present"

\* what the decoders of the entries see of a spelled-out entry
Wire(e) ==
    [item_id |-> IF HasStringItemId(e) THEN e.item_id.s ELSE NoId,
     shape |-> IF ItemFieldRules(e) THEN "full" ELSE "minimal"]

\* ------------------------------------------------------------------------
\* Response bodies
\* ------------------------------------------------------------------------

\* `list` as a JSON object: any entries under their own item_id, and any
\* single entry under any key
MapLists ==
    {m \in UNION {[S -> WireEntries] : S \in SUBSET ItemIds} :
        \/ Cardinality(DOMAIN m) = 1
        \/ \A k \in DOMAIN m : m[k].item_id = k}

\* `list` as a JSON array
ArrayLists == {<<>>} \cup {<<w>> : w \in {[item_id |-> "1", shape |-> "full"],
                                           [item_id |-> "2", shape |-> "minimal"]}}

\* bodies a server may answer to /get
GetBodies ==
    {[json |-> "object", list |-> m] : m \in MapLists}
        \cup {[json |-> "array", list |-> a] : a \in ArrayLists}
        \cup {[json |-> "other"], [json |-> "truncated"]}

\* serde_json::from_str::<ReadingListResponse>
DeserializeReadingListResponse(body) ==
    IF body.json = "truncated"
    THEN [ok |-> FALSE, err |-> [target |-> "ReadingListResponse", msg |-> "EOF while parsing"]]
    ELSE IF body.json # "object"
    THEN [ok |-> FALSE, err |-> [target |-> "ReadingListResponse", msg |-> "invalid type"]]
    ELSE IF \E k \in DOMAIN body.list : ~DeserializeItemOrDeletedItem(body.list[k]).ok
    THEN [ok |-> FALSE, err |-> [target |-> "ReadingListResponse", msg |-> "no variant matched"]]
    ELSE [ok |-> TRUE,
          val |-> [list |-> [k \in DOMAIN body.list |->
                                DeserializeItemOrDeletedItem(body.list[k]).val]]]

\* serde_json::from_str::<EmptyReadingListResponse>
DeserializeEmptyReadingListResponse(body) ==
    IF body.json = "truncated"
    THEN [ok |-> FALSE, err |-> [target |-> "EmptyReadingListResponse", msg |-> "EOF while parsing"]]
    ELSE IF body.json # "array"
    THEN [ok |-> FALSE, err |-> [target |-> "EmptyReadingListResponse", msg |-> "invalid type"]]
    ELSE IF \E i \in DOMAIN body.list : ~DeserializeItem(body.list[i]).ok
    THEN [ok |-> FALSE, err |-> [target |-> "EmptyReadingListResponse", msg |-> "missing field"]]
    ELSE [ok |-> TRUE,
          val |-> [list |-> [i \in DOMAIN body.list |-> DeserializeItem(body.list[i]).val]]]

\* variant of parse_all_response: a map without entries ends the pagination
parse_all_response_EmptyMapIsNoMore(response) ==
    LET first == DeserializeReadingListResponse(response)
        second == DeserializeEmptyReadingListResponse(response)
    IN  IF first.ok
        THEN IF DOMAIN first.val.list = {}
             THEN [state |-> "NoMore"]
             ELSE [state |-> "Parsed", r |-> first.val]
        ELSE IF second.ok /\ second.val.list = <<>>
             THEN [state |-> "NoMore"]
             ELSE [state |-> "Error", e |-> first.err]

\* variant of parse_all_response: an array is an error even when it is empty
parse_all_response_ArrayIsError(response) ==
    LET first == DeserializeReadingListResponse(response)
    IN  IF first.ok THEN [state |-> "Parsed", r |-> first.val]
        ELSE [state |-> "Error", e |-> first.err]

\* variant of parse_all_response: a body that fails both attempts is taken
\* for the end of the list
parse_all_response_FailureIsNoMore(response) ==
    LET first == DeserializeReadingListResponse(response)
        second == DeserializeEmptyReadingListResponse(response)
    IN  IF first.ok THEN [state |-> "Parsed", r |-> first.val]
        ELSE IF second.ok
             THEN IF second.val.list = <<>>
                  THEN [state |-> "NoMore"]
                  ELSE [state |-> "Error", e |-> first.err]
             ELSE [state |-> "NoMore"]

\* variant of parse_all_response: the error carried is that of the second
\* attempt
parse_all_response_SecondError(response) ==
    LET first == DeserializeReadingListResponse(response)
        second == DeserializeEmptyReadingListResponse(response)
    IN  IF first.ok THEN [state |-> "Parsed", r |-> first.val]
        ELSE IF second.ok
             THEN IF second.val.list = <<>>
                  THEN [state |-> "NoMore"]
                  ELSE [state |-> "Error",
                        e |-> [target |-> "EmptyReadingListResponse",
                               msg |-> "list is not empty"]]
             ELSE [state |-> "Error", e |-> second.err]

parse_all_response(response) ==
    LET first == DeserializeReadingListResponse(response)
        second == DeserializeEmptyReadingListResponse(response)
    IN  IF first.ok THEN [state |-> "Parsed", r |-> first.val]
        ELSE IF second.ok
             THEN IF second.val.list = <<>>
                  THEN [state |-> "NoMore"]
                  ELSE [state |-> "Error", e |-> first.err]
             ELSE [state |-> "Error", e |-> first.err]

\* ------------------------------------------------------------------------
\* ReadingList = BTreeMap<ItemId, ItemOrDeletedItem>
\* ------------------------------------------------------------------------

EmptyReadingList == <<>>

\* variant of Extend: a key that is already present keeps its old value
Extend_KeepFirst(reading_list, list) ==
    [k \in (DOMAIN reading_list) \cup (DOMAIN list) |->
        IF k \in DOMAIN reading_list THEN reading_list[k] ELSE list[k]]

\* variant of Extend: the page replaces the accumulator
Extend_Overwrite(reading_list, list) == list

\* variant of Extend: the page is not merged
Extend_NoMerge(reading_list, list) == reading_list

\* variant of Extend: on a key that is already present an Item is never
\* replaced by a DeletedItem
Extend_ItemBeatsDeletedItem(reading_list, list) ==
    [k \in (DOMAIN reading_list) \cup (DOMAIN list) |->
        IF k \in DOMAIN list
           /\ ~(k \in DOMAIN reading_list /\ reading_list[k].type = "Item"
                /\ list[k].type = "DeletedItem")
        THEN list[k] ELSE reading_list[k]]

\* variant of Extend: a key of the page that is already present is evicted
Extend_EvictOnCollision(reading_list, list) ==
    [k \in ((DOMAIN reading_list) \cup (DOMAIN list))
              \ ((DOMAIN reading_list) \cap (DOMAIN list)) |->
        IF k \in DOMAIN list THEN list[k] ELSE reading_list[k]]

\* BTreeMap::extend: every (key, value) of the page is inserted, replacing
\* the value of a key that is already present
Extend(reading_list, list) ==
    [k \in (DOMAIN reading_list) \cup (DOMAIN list) |->
        IF k \in DOMAIN list THEN list[k] ELSE reading_list[k]]

\* ------------------------------------------------------------------------
\* GetInput and the /get payload
\* ------------------------------------------------------------------------

GetInputFields ==
    {"state", "favorite", "tag", "content_type", "sort", "detail_type",
     "search", "domain", "since", "count", "offset"}

\* #[derive(Default)]: every field None
GetInputDefault == [f \in GetInputFields |-> None]

\* #[serde(rename = "detailType")]
SerdeName(f) == IF f = "detail_type" THEN "detailType" ELSE f

\* #[serde(rename_all = "lowercase")] on State, Sort, DetailType
Lowercase(variant) ==
    CASE variant = "All" -> "all"
      [] variant = "Unread" -> "unread"
      [] variant = "Archive" -> "archive"
      [] variant = "Site" -> "site"
      [] variant = "Newest" -> "newest"
      [] variant = "Complete" -> "complete"
      [] variant = "Simple" -> "simple"
      [] variant = "Article" -> "article"
      [] variant = "Video" -> "video"
      [] variant = "Image" -> "image"
      [] variant = "Oldest" -> "oldest"
      [] variant = "Title" -> "title"

\* the fields whose type is one of those enums
LowercaseEnumFields == {"state", "content_type", "sort", "detail_type"}

\* #[serde(rename = "0")] and #[serde(rename = "1")] on FavoriteStatus
SerializeFavoriteStatus(variant) ==
    IF variant = "Favorited" THEN "1" ELSE "0"

\* Serialize of TagFilter: TagName(s) is written as {"TagName": s}, Untagged
\* is renamed
SerializeTagFilter(v) ==
    IF v.variant = "Untagged" THEN "_untagged_" ELSE [TagName |-> v.name]

\* Serialize of one field that is Some(v)
SerializeField(f, v) ==
    CASE f \in LowercaseEnumFields -> Lowercase(v)
      [] f = "favorite" -> SerializeFavoriteStatus(v)
      [] f = "tag" -> SerializeTagFilter(v)
      [] OTHER -> v

\* variant of ToValue: without skip_serializing_none, a None is written as
\* null
ToValue_NoneAsNull(get_input) ==
    LET FieldOf(n) == CHOOSE f \in GetInputFields : SerdeName(f) = n
    IN  [n \in {SerdeName(f) : f \in GetInputFields} |->
            IF get_input[FieldOf(n)].some
            THEN SerializeField(FieldOf(n), get_input[FieldOf(n)].v)
            ELSE "null"]

\* serde_json::to_value(get_input) under #[skip_serializing_none]
ToValue(get_input) ==
    LET present == {f \in GetInputFields : get_input[f].some}
        FieldOf(n) == CHOOSE f \in present : SerdeName(f) = n
    IN  [n \in {SerdeName(f) : f \in present} |->
            SerializeField(FieldOf(n), get_input[FieldOf(n)].v)]

\* json_value_merge::Merge for two JSON objects
Merge(payload, other) ==
    [k \in (DOMAIN payload) \cup (DOMAIN other) |->
        IF k \in DOMAIN other THEN other[k] ELSE payload[k]]

\* Client::auth
Auth(self) ==
    [consumer_key |-> self.consumer_key, access_token |-> self.authorization_code]

\* auth::url
Url(method) == <<ENDPOINT, method>>

\* the queries a caller hands to get
Queries ==
    {GetInputDefault,
     [GetInputDefault EXCEPT !["state"] = Some("Unread")],
     [GetInputDefault EXCEPT !["state"] = Some("All"),
                             !["search"] = Some("https://a"),
                             !["detail_type"] = Some("Complete")],
     [GetInputDefault EXCEPT !["count"] = Some(1), !["offset"] = Some(1)],
     [GetInputDefault EXCEPT !["favorite"] = Some("Favorited"),
                             !["tag"] = Some([variant |-> "Untagged"]),
                             !["content_type"] = Some("Article"),
                             !["sort"] = Some("Newest")],
     [GetInputDefault EXCEPT !["tag"] = Some([variant |-> "TagName", name |-> "rust"]),
                             !["domain"] = Some("a.com"),
                             !["since"] = Some(1600000000)]}

\* ------------------------------------------------------------------------
\* Transport
\* ------------------------------------------------------------------------

\* What the server and the network give back to one request: a connection
\* failure, a body that cannot be read, a body that is not UTF-8, or an
\* HTTP response with a status and a body.
Failures ==
    {[transport |-> "connect_error"], [transport |-> "body_error"],
     [transport |-> "invalid_utf8"]}

Http(status, body) == [transport |-> "ok", status |-> status, body |-> body]

GetResponses ==
    {Http(200, b) : b \in GetBodies}
        \cup {Http(500, b) : b \in {[json |-> "other"],
                                    [json |-> "array", list |-> <<>>],
                                    [json |-> "object",
                                     list |-> [k \in {"1"} |-> [item_id |-> "1", shape |-> "full"]]]}}
        \cup Failures

\* Client::request never looks at the status: it panics on the three
\* failures and returns the body of any HTTP response
RequestPanics(r) == r.transport # "ok"

PanicMessage(r) ==
    CASE r.transport = "connect_error" -> "Could not make request with payload"
      [] r.transport = "body_error" -> "Could not read the HTTP request's body"
      [] r.transport = "invalid_utf8" -> "Response was not valid UTF-8"

\* ------------------------------------------------------------------------
\* State
\* ------------------------------------------------------------------------

VARIABLES
    client,           \* the Client: consumer_key, authorization_code
    overflow_checks,  \* the build: TRUE when arithmetic overflow panics
    pc,               \* where the client is: idle, awaiting a response, done, panicked
    call,             \* the call in progress and its arguments
    reading_list,     \* get / list_all: the local accumulator
    offset,           \* list_all: the local page counter (u32)
    requests,         \* the requests issued by the call in progress
    response,         \* the last answer received by the call in progress
    pages,            \* the Parsed pages received by the call in progress
    result,           \* what the call returned
    others            \* the other call in flight on the same Client, not running

vars == <<client, others, overflow_checks, pc, call, reading_list, offset, requests, response, pages, result>>

NoCall == [op |-> "none"]

NoResponse == [transport |-> "none"]

NoResult == [tag |-> "none"]

Ok(v) == [tag |-> "Ok", value |-> v]

Err(e) == [tag |-> "Err", error |-> e]

\* ClientError::ParseJSON(#[from] serde_json::Error)
ParseJSON(e) == [variant |-> "ParseJSON", source |-> e]

Post(uri, payload) == [method |-> "POST", uri |-> uri, payload |-> payload]

\* the state a call owns when no call has been made
IdleFrame ==
    [pc |-> "idle", call |-> NoCall, reading_list |-> EmptyReadingList,
     offset |-> 0, requests |-> <<>>, response |-> NoResponse, pages |-> <<>>,
     result |-> NoResult]

Init ==
    /\ client = [consumer_key |-> "key", authorization_code |-> "code"]
    /\ others = IdleFrame
    /\ overflow_checks \in BOOLEAN
    /\ pc = "idle"
    /\ call = NoCall
    /\ reading_list = EmptyReadingList
    /\ offset = 0
    /\ requests = <<>>
    /\ response = NoResponse
    /\ pages = <<>>
    /\ result = NoResult

\* ------------------------------------------------------------------------
\* Client::get
\* ------------------------------------------------------------------------

\* get, up to the .await of the request
Get(get_input) ==
    /\ pc = "idle"
    /\ reading_list' = EmptyReadingList
    /\ requests' = <<Post(Url("/get"), Merge(ToValue(get_input), Auth(client)))>>
    /\ pc' = "get_await"
    /\ call' = [op |-> "get", get_input |-> get_input]
    /\ UNCHANGED <<client, others, overflow_checks, offset, response, pages, result>>

\* get, from the answer of the transport to the return
GetResponse(r) ==
    /\ pc = "get_await"
    /\ response' = r
    /\ IF RequestPanics(r)
       THEN /\ pc' = "panicked"
            /\ result' = [tag |-> "Panic", message |-> PanicMessage(r)]
            /\ UNCHANGED <<reading_list, pages>>
       ELSE LET parsed == parse_all_response(r.body)
            IN  /\ pc' = "done"
                /\ CASE parsed.state = "NoMore" ->
                          /\ result' = Ok(reading_list)
                          /\ UNCHANGED <<reading_list, pages>>
                     [] parsed.state = "Parsed" ->
                          /\ reading_list' = Extend(reading_list, parsed.r.list)
                          /\ pages' = Append(pages, parsed.r.list)
                          /\ result' = Ok(reading_list')
                     [] parsed.state = "Error" ->
                          /\ result' = Err(ParseJSON(parsed.e))
                          /\ UNCHANGED <<reading_list, pages>>
    /\ UNCHANGED <<client, others, overflow_checks, call, offset, requests>>

\* ------------------------------------------------------------------------
\* Client::list_all
\* ------------------------------------------------------------------------

\* offset * DEFAULT_COUNT does not fit in a u32.  DEFAULT_COUNT is a multiple
\* of 8, so off * DEFAULT_COUNT > 2^32 - 1 iff
\* off > (2^29 - 1) \div (DEFAULT_COUNT \div 8); the quotient form keeps every
\* intermediate value below 2^31.
MulOverflows(off) ==
    off > (2 ^ (U32Bits - 3) - 1) \div (DEFAULT_COUNT \div 8)

\* (off * DEFAULT_COUNT) mod 2^32, what the multiplication yields when
\* overflow is not checked, computed as 8 * ((off * DEFAULT_COUNT / 8) mod 2^29)
WrappingMul(off) ==
    8 * ((off * (DEFAULT_COUNT \div 8)) % (2 ^ (U32Bits - 3)))

\* variant of ListAllInput: the offset is sent in pages, not in records
ListAllInput_PageUnits(off) ==
    [f \in GetInputFields |->
        CASE f = "sort" -> Some("Site")
          [] f = "state" -> Some("All")
          [] f = "detail_type" -> Some("Complete")
          [] f = "count" -> Some(DEFAULT_COUNT)
          [] f = "offset" -> Some(off)
          [] OTHER -> None]

\* the GetInput built at the top of the loop body
ListAllInput(off) ==
    [GetInputDefault EXCEPT !["sort"] = Some("Site"),
                            !["state"] = Some("All"),
                            !["detail_type"] = Some("Complete"),
                            !["count"] = Some(DEFAULT_COUNT),
                            !["offset"] = Some(WrappingMul(off))]

\* One pass from the top of the loop to the .await of the request, with the
\* local state (list, off, pgs) the loop has at that point.
ListAllIteration(list, off, pgs) ==
    /\ reading_list' = list
    /\ offset' = off
    /\ pages' = pgs
    /\ IF MulOverflows(off) /\ overflow_checks
       THEN /\ pc' = "panicked"
            /\ result' = [tag |-> "Panic", message |-> "attempt to multiply with overflow"]
            /\ UNCHANGED requests
       ELSE /\ pc' = "list_await"
            /\ requests' = Append(requests,
                   Post(Url("/get"), Merge(ToValue(ListAllInput(off)), Auth(client))))
            /\ UNCHANGED result

\* list_all, up to the .await of the first request
ListAll ==
    /\ pc = "idle"
    /\ call' = [op |-> "list_all"]
    /\ ListAllIteration(EmptyReadingList, 0, <<>>)
    /\ UNCHANGED <<client, others, overflow_checks, response>>

\* list_all, from one answer of the transport to the next .await or to the
\* return
ListAllResponse(r) ==
    /\ pc = "list_await"
    /\ response' = r
    /\ IF RequestPanics(r)
       THEN /\ pc' = "panicked"
            /\ result' = [tag |-> "Panic", message |-> PanicMessage(r)]
            /\ UNCHANGED <<reading_list, offset, pages, requests>>
       ELSE LET parsed == parse_all_response(r.body)
            IN  CASE parsed.state = "NoMore" ->
                       /\ pc' = "done"
                       /\ result' = Ok(reading_list)
                       /\ UNCHANGED <<reading_list, offset, pages, requests>>
                  [] parsed.state = "Parsed" ->
                       /\ Len(pages) < MaxPages
                       /\ ListAllIteration(Extend(reading_list, parsed.r.list),
                                           offset + 1,
                                           Append(pages, parsed.r.list))
                  [] parsed.state = "Error" ->
                       /\ pc' = "done"
                       /\ result' = Err(ParseJSON(parsed.e))
                       /\ UNCHANGED <<reading_list, offset, pages, requests>>
    /\ UNCHANGED <<client, others, overflow_checks, call>>

\* ------------------------------------------------------------------------
\* Client::modify and its wrappers
\* ------------------------------------------------------------------------

\* the sequences over S of length at most n
SeqUpTo(S, n) == UNION {[1..k -> S] : k \in 0..n}

\* the urls a caller hands to add_urls
Urls == {"https://a", "savemysoul", "https://a/\"b"}

\* the strings of the model that hold a character (double quote, backslash)
\* which ends or escapes a JSON string
HasQuote(s) == s = "https://a/\"b"

\* what chrono::Utc::now().timestamp() may return
Clock == {1600000000, 1600000001}

\* let action_verb = match action { .. }
ActionVerb(action) ==
    CASE action = "Favorite" -> "favorite"
      [] action = "Archive" -> "archive"
      [] action = "Add" -> "add"

\* let item_key = match action { .. }
ItemKey(action) == IF action = "Add" THEN "url" ELSE "item_id"

\* the text one id is formatted to,
\*   { "action": "<verb>", "<key>": "<id>", "time": "<time>" }
\* given by what fills the four holes of the template: the strings are
\* written between the quotes as they are, nothing is escaped
FormatAction(action, id, time) ==
    [verb |-> ActionVerb(action), key |-> ItemKey(action), id |-> id,
     time |-> ToString(time)]

\* what a JSON reader makes of the text of one action: a quote inside a hole
\* ends the string early and leaves text that is not JSON
ReadAction(text) ==
    IF HasQuote(text.verb) \/ HasQuote(text.key) \/ HasQuote(text.id)
       \/ HasQuote(text.time)
    THEN [json |-> "malformed"]
    ELSE [json |-> "object",
          fields |-> [k \in {"action", text.key, "time"} |->
                        CASE k = "action" -> text.verb
                          [] k = "time" -> text.time
                          [] OTHER -> text.id]]

\* variant of ModifyPayload: only the first action of the batch is sent
ModifyPayload_FirstActionOnly(self, action, ids, time) ==
    [consumer_key |-> self.consumer_key,
     access_token |-> self.authorization_code,
     actions |-> [i \in DOMAIN ids \cap {1} |-> FormatAction(action, ids[i], time)]]

\* variant of ModifyPayload: the actions are sent last to first
ModifyPayload_Reversed(self, action, ids, time) ==
    [consumer_key |-> self.consumer_key,
     access_token |-> self.authorization_code,
     actions |-> [i \in DOMAIN ids |->
                    FormatAction(action, ids[Len(ids) + 1 - i], time)]]

\* the JSON document the payload is formatted to
ModifyPayload(self, action, ids, time) ==
    [consumer_key |-> self.consumer_key,
     access_token |-> self.authorization_code,
     actions |-> [i \in DOMAIN ids |-> FormatAction(action, ids[i], time)]]

\* modify, up to the .await of the request
Modify(action, ids, time) ==
    /\ requests' = <<Post(Url("/send"), ModifyPayload(client, action, ids, time))>>
    /\ pc' = "modify_await"
    /\ UNCHANGED <<client, others, overflow_checks, reading_list, offset, response, pages, result>>

MarkAsRead(ids, time) ==
    /\ pc = "idle"
    /\ call' = [op |-> "mark_as_read", ids |-> ids]
    /\ Modify("Archive", ids, time)

MarkAsFavorite(ids, time) ==
    /\ pc = "idle"
    /\ call' = [op |-> "mark_as_favorite", ids |-> ids]
    /\ Modify("Favorite", ids, time)

AddUrls(urls, time) ==
    /\ pc = "idle"
    /\ call' = [op |-> "add_urls", ids |-> urls]
    /\ Modify("Add", urls, time)

\* elements of action_results and action_errors of a /send response
ActionResults ==
    {[t |-> "bool", b |-> TRUE], [t |-> "bool", b |-> FALSE],
     [t |-> "item", item_id |-> "1"]}

ActionErrors ==
    {[t |-> "null"],
     [t |-> "error", code |-> 422, message |-> "Invalid/non-existent URL",
      error_type |-> "Unprocessable Entity"]}

\* bodies a server may answer to /send
SendBodies ==
    {[json |-> "send", action_results |-> rs, action_errors |-> es] :
        rs \in SeqUpTo(ActionResults, MaxBatch), es \in SeqUpTo(ActionErrors, MaxBatch)}
        \cup {[json |-> "truncated"]}

SendResponses ==
    {Http(200, b) : b \in SendBodies}
        \cup {Http(500, b) : b \in {[json |-> "other"],
                                    [json |-> "send", action_results |-> <<>>,
                                     action_errors |-> <<>>]}}
        \cup Failures

\* modify, from the answer of the transport to the return: the String that
\* request returns is dropped and modify returns ()
ModifyResponse(r) ==
    /\ pc = "modify_await"
    /\ response' = r
    /\ IF RequestPanics(r)
       THEN /\ pc' = "panicked"
            /\ result' = [tag |-> "Panic", message |-> PanicMessage(r)]
       ELSE /\ pc' = "done"
            /\ result' = [tag |-> "Unit"]
    /\ UNCHANGED <<client, others, overflow_checks, call, reading_list, offset, requests, pages>>

\* ------------------------------------------------------------------------
\* Item::url and Item::title
\* ------------------------------------------------------------------------

\* values of given_url and resolved_url; "" until Pocket has resolved the item
ItemUrls == {"", "https://a", "https://b"}

\* values of given_title and resolved_title
ItemTitles == {"", "A title", "B title"}

\* the fields of struct Item that url and title read
Items ==
    [given_url : ItemUrls, resolved_url : ItemUrls,
     given_title : ItemTitles, resolved_title : ItemTitles]

\* str::is_empty
is_empty(s) == s = ""

\* variant of Item::url: the given URL is preferred
Item_url_GivenFirst(self) ==
    IF ~is_empty(self.given_url) THEN self.given_url ELSE self.resolved_url

\* Item::url
Item_url(self) ==
    IF ~is_empty(self.resolved_url) THEN self.resolved_url ELSE self.given_url

\* variant of Item::title: the given title is preferred
Item_title_GivenFirst(self) ==
    IF is_empty(self.given_title)
    THEN IF is_empty(self.resolved_title)
         THEN Item_url(self)
         ELSE self.resolved_title
    ELSE self.given_title

\* Item::title
Item_title(self) ==
    IF is_empty(self.resolved_title)
    THEN IF is_empty(self.given_title)
         THEN Item_url(self)
         ELSE self.given_title
    ELSE self.resolved_title

\* a caller asks an item for its URL
CallItemUrl(item) ==
    /\ pc = "idle"
    /\ call' = [op |-> "Item::url", item |-> item]
    /\ result' = [tag |-> "Str", value |-> Item_url(item)]
    /\ pc' = "done"
    /\ UNCHANGED <<client, others, overflow_checks, reading_list, offset, requests, response, pages>>

\* a caller asks an item for its title
CallItemTitle(item) ==
    /\ pc = "idle"
    /\ call' = [op |-> "Item::title", item |-> item]
    /\ result' = [tag |-> "Str", value |-> Item_title(item)]
    /\ pc' = "done"
    /\ UNCHANGED <<client, others, overflow_checks, reading_list, offset, requests, response, pages>>

\* ------------------------------------------------------------------------
\* cleanup_url
\* ------------------------------------------------------------------------

\* A text is the sequence of its pieces: a '/', the text index.html, the
\* text index.php, or a text "a" that holds none of them.
PathPieces == {"/", "index.html", "index.php", "a"}

\* Uri::path: it starts with '/', and is "/" when the URL has none
Paths ==
    {p \in UNION {[1..n -> PathPieces] : n \in 1..MaxPathLen} : p[1] = "/"}

\* Uri::host: the name, whether it starts with "www.", and the text after
\* ".blogspot." when the name has one
Hosts ==
    {[www |-> FALSE, name |-> "example.com", blogspot |-> ""],
     [www |-> TRUE, name |-> "this-is-a", blogspot |-> "com.br"]}

\* a URL without a host
NoHost == [www |-> FALSE, name |-> "", blogspot |-> ""]

\* what url.parse::<Uri>() gives
ParsedUris ==
    [ok : {TRUE}, host : Hosts, path : Paths]
        \cup {[ok |-> TRUE, host |-> NoHost, path |-> <<"/", "a">>],
              [ok |-> FALSE, text |-> "not a url"]}

\* str::trim_end_matches: the pattern is removed from the end as many times
\* as it is there
RECURSIVE trim_end_matches(_, _)
trim_end_matches(s, pat) ==
    IF s # <<>> /\ s[Len(s)] = pat
    THEN trim_end_matches(SubSeq(s, 1, Len(s) - 1), pat)
    ELSE s

\* cleanup_path
cleanup_path(path) ==
    trim_end_matches(
        trim_end_matches(trim_end_matches(path, "index.html"), "index.php"),
        "/")

\* fixup_blogspot applied to &current_host[start_domain_from(current_host)..]
fixup_blogspot(host) ==
    IF host.blogspot # ""
    THEN [name |-> host.name, blogspot |-> "com"]
    ELSE [name |-> host.name, blogspot |-> ""]

\* cleanup_url
cleanup_url(parsed) ==
    IF parsed.ok
    THEN IF parsed.host = NoHost
         THEN [tag |-> "Panic", message |-> "Cleaned up an url without a host"]
         ELSE [tag |-> "Str",
               value |-> [scheme |-> "https", host |-> fixup_blogspot(parsed.host),
                          path |-> cleanup_path(parsed.path)]]
    ELSE [tag |-> "Str", value |-> parsed.text]

\* a caller cleans a URL up
CallCleanupUrl(parsed) ==
    /\ pc = "idle"
    /\ call' = [op |-> "cleanup_url", url |-> parsed]
    /\ result' = cleanup_url(parsed)
    /\ pc' = IF result'.tag = "Panic" THEN "panicked" ELSE "done"
    /\ UNCHANGED <<client, others, overflow_checks, reading_list, offset, requests, response, pages>>

\* ------------------------------------------------------------------------
\* Decoding and encoding of single values
\* ------------------------------------------------------------------------

\* is_article or is_index is decoded from a JSON value
CallDeserializeBool(v) ==
    /\ pc = "idle"
    /\ call' = [op |-> "deserialize_string_to_bool", value |-> v]
    /\ result' = [tag |-> "Decoded", value |-> deserialize_string_to_bool(v)]
    /\ pc' = "done"
    /\ UNCHANGED <<client, others, overflow_checks, reading_list, offset, requests, response, pages>>

\* is_article or is_index is encoded and the encoding decoded again
CallBoolRoundTrip(b) ==
    /\ pc = "idle"
    /\ call' = [op |-> "bool_round_trip", b |-> b,
                wire |-> serialize_bool_to_string(b)]
    /\ result' = [tag |-> "Decoded",
                  value |-> deserialize_string_to_bool(serialize_bool_to_string(b))]
    /\ pc' = "done"
    /\ UNCHANGED <<client, others, overflow_checks, reading_list, offset, requests, response, pages>>

\* a page whose `list` has the one entry e under key k is decoded
CallParsePage(k, e) ==
    /\ pc = "idle"
    /\ call' = [op |-> "parse_all_response", key |-> k, entry |-> e]
    /\ result' = [tag |-> "Classified",
                  value |-> parse_all_response(
                      [json |-> "object", list |-> [x \in {k} |-> Wire(e)]])]
    /\ pc' = "done"
    /\ UNCHANGED <<client, others, overflow_checks, reading_list, offset, requests, response, pages>>

\* ------------------------------------------------------------------------
\* Two calls in flight on one Client
\* ------------------------------------------------------------------------

\* the state owned by the call that is running
Running ==
    [pc |-> pc, call |-> call, reading_list |-> reading_list,
     offset |-> offset, requests |-> requests, response |-> response,
     pages |-> pages, result |-> result]

\* variant of ListAllLocals: the accumulator and the offset are shared by
\* the calls on a Client
ListAllLocals_Shared == {}

\* `let mut reading_list` and `let mut offset`: locals of the call, kept in
\* the call's own future
ListAllLocals == {"reading_list", "offset"}

\* The executor leaves the running call where it is and polls the other
\* call; every call takes &self and Client has no interior mutability.
Switch ==
    /\ pc # "panicked"
    /\ others' = Running
    /\ pc' = others.pc
    /\ call' = others.call
    /\ requests' = others.requests
    /\ response' = others.response
    /\ pages' = others.pages
    /\ result' = others.result
    /\ reading_list' = IF "reading_list" \in ListAllLocals
                       THEN others.reading_list ELSE reading_list
    /\ offset' = IF "offset" \in ListAllLocals THEN others.offset ELSE offset
    /\ UNCHANGED <<client, overflow_checks>>

\* the answers to /get of the server the two calls talk to
ConcurrentGetResponses ==
    {Http(200, [json |-> "object",
                list |-> [k \in {"1"} |-> [item_id |-> "1", shape |-> "full"]]]),
     Http(200, [json |-> "object",
                list |-> [k \in {"1", "2"} |-> [item_id |-> k, shape |-> "minimal"]]]),
     Http(200, [json |-> "array", list |-> <<>>]),
     Http(200, [json |-> "truncated"]),
     [transport |-> "connect_error"]}

\* the answers to /send of that server
ConcurrentSendResponses ==
    {Http(200, [json |-> "send", action_results |-> <<[t |-> "bool", b |-> TRUE]>>,
                action_errors |-> <<[t |-> "null"]>>]),
     [transport |-> "connect_error"]}

\* ------------------------------------------------------------------------
\* The caller
\* ------------------------------------------------------------------------

\* the caller takes the returned value and is free to make the next call
Return ==
    /\ pc = "done"
    /\ pc' = "idle"
    /\ call' = NoCall
    /\ reading_list' = EmptyReadingList
    /\ offset' = 0
    /\ requests' = <<>>
    /\ response' = NoResponse
    /\ pages' = <<>>
    /\ result' = NoResult
    /\ UNCHANGED <<client, others, overflow_checks>>

Next ==
    \/ \E get_input \in Queries : Get(get_input)
    \/ \E r \in GetResponses : GetResponse(r)
    \/ ListAll
    \/ \E r \in GetResponses : ListAllResponse(r)
    \/ \E ids \in SeqUpTo(ItemIds, MaxBatch), time \in Clock : MarkAsRead(ids, time)
    \/ \E ids \in SeqUpTo(ItemIds, MaxBatch), time \in Clock : MarkAsFavorite(ids, time)
    \/ \E urls \in SeqUpTo(Urls, MaxBatch), time \in Clock : AddUrls(urls, time)
    \/ \E r \in SendResponses : ModifyResponse(r)
    \/ \E item \in Items : CallItemUrl(item)
    \/ \E item \in Items : CallItemTitle(item)
    \/ \E v \in BoolWireValues : CallDeserializeBool(v)
    \/ \E b \in BOOLEAN : CallBoolRoundTrip(b)
    \/ \E k \in ItemIds, e \in FieldEntries : CallParsePage(k, e)
    \/ \E parsed \in ParsedUris : CallCleanupUrl(parsed)
    \/ Return

Spec == Init /\ [][Next]_vars

\* the last page index whose product with DEFAULT_COUNT fits in a u32
LastFittingPage == (2 ^ (U32Bits - 3) - 1) \div (DEFAULT_COUNT \div 8)

\* A list_all call that has received only pages with an empty `list` object
\* so far and awaits the answer to its request for the last page index that
\* fits. The requests sent and the pages received so far are not kept.
InitOverflow ==
    /\ client = [consumer_key |-> "key", authorization_code |-> "code"]
    /\ others = IdleFrame
    /\ overflow_checks \in BOOLEAN
    /\ pc = "list_await"
    /\ call = [op |-> "list_all"]
    /\ reading_list = EmptyReadingList
    /\ offset = LastFittingPage
    /\ requests = <<>>
    /\ response = NoResponse
    /\ pages = <<>>
    /\ result = NoResult

\* the answers to /get of a server that goes on sending pages
OverflowGetResponses ==
    {Http(200, [json |-> "object", list |-> <<>>]),
     Http(200, [json |-> "object",
                list |-> [k \in {"1"} |-> [item_id |-> "1", shape |-> "full"]]]),
     Http(200, [json |-> "object",
                list |-> [k \in {"2"} |-> [item_id |-> "2", shape |-> "minimal"]]]),
     Http(200, [json |-> "object",
                list |-> [k \in {"1", "2"} |-> [item_id |-> k, shape |-> "full"]]]),
     Http(200, [json |-> "array", list |-> <<>>]),
     Http(200, [json |-> "other"]),
     Http(200, [json |-> "truncated"]),
     Http(500, [json |-> "other"]),
     [transport |-> "connect_error"]}

NextOverflow ==
    \/ \E r \in OverflowGetResponses : ListAllResponse(r)

\* list_all close to the page index where offset * DEFAULT_COUNT overflows
SpecOverflow == InitOverflow /\ [][NextOverflow]_vars

\* two calls in flight on one Client, against a server with few answers
NextConcurrent ==
    \/ Get(GetInputDefault)
    \/ \E r \in ConcurrentGetResponses : GetResponse(r)
    \/ ListAll
    \/ \E r \in ConcurrentGetResponses : ListAllResponse(r)
    \/ MarkAsRead(<<"1">>, 1600000000)
    \/ \E r \in ConcurrentSendResponses : ModifyResponse(r)
    \/ Return
    \/ Switch

SpecConcurrent == Init /\ [][NextConcurrent]_vars

\* ------------------------------------------------------------------------
\* Vocabulary of the properties
\* ------------------------------------------------------------------------

InListAll == call.op = "list_all"

InGet == call.op = "get"

InModify == call.op \in {"mark_as_read", "mark_as_favorite", "add_urls"}

\* an HTTP response arrived
Answered(r) == r.transport = "ok"

\* connection failure, unreadable body, or a status outside 2xx
TransportFailure(r) ==
    \/ r \in Failures
    \/ Answered(r) /\ r.status \notin 200..299

\* how the body of an HTTP response is classified
Classified(r) == parse_all_response(r.body)

\* the index of the last received page that has key k
LastPageWith(k) ==
    CHOOSE i \in DOMAIN pages :
        /\ k \in DOMAIN pages[i]
        /\ \A j \in DOMAIN pages : j > i => k \notin DOMAIN pages[j]

\* the parts of the pagination protocol that do not depend on the contents
\* of the pages: the first request asks for offset 0, every Parsed page is
\* merged and followed by exactly one further request, and the call returns
\* Ok exactly when the last response is NoMore, with the accumulator as value
PaginationProtocol ==
    InListAll =>
        /\ Len(requests) >= 1
        /\ requests[1].payload["offset"] = 0
        /\ Len(requests) = Len(pages) + 1
        /\ DOMAIN reading_list = UNION {DOMAIN pages[i] : i \in DOMAIN pages}
        /\ pc = "list_await" /\ Len(pages) > 0 =>
               /\ Answered(response)
               /\ Classified(response).state = "Parsed"
               /\ pages[Len(pages)] = Classified(response).r.list
        /\ pc = "done" =>
               /\ result.tag = "Ok" <=> Classified(response).state = "NoMore"
               /\ result.tag = "Ok" => result.value = reading_list

\* ------------------------------------------------------------------------
\* C1
\* ------------------------------------------------------------------------

PageRequestFailed(r) ==
    \/ TransportFailure(r)
    \/ Answered(r) /\ Classified(r).state = "Error"

\* C2: when a page request of list_all fails (transport failure or a
\* response that does not decode), list_all returns that error, returns none
\* of the entries merged so far, and issues no request after the failing one.
C2_FailureAbortsWithError ==
    InListAll /\ PageRequestFailed(response) =>
        /\ pc = "done"
        /\ result.tag = "Err"
        /\ Len(requests) = Len(pages) + 1

\* ------------------------------------------------------------------------
\* C3
\* ------------------------------------------------------------------------

C5_GetIsOnePage ==
    InGet =>
        /\ Len(requests) = 1
        /\ requests[1].method = "POST"
        /\ requests[1].uri = <<ENDPOINT, "/get">>
        /\ pc = "done" /\ Classified(response).state = "Parsed" =>
               result = Ok(Classified(response).r.list)
        /\ pc = "done" /\ Classified(response).state = "NoMore" =>
               result = Ok(<<>>)

\* get returned after a Parsed page that has entries
C5_Witness ==
    /\ InGet /\ pc = "done"
    /\ Classified(response).state = "Parsed"
    /\ DOMAIN Classified(response).r.list # {}

\* ------------------------------------------------------------------------
\* C6 - C9: the outcomes of a batch
\* ------------------------------------------------------------------------

\* the per-action outcomes a returned value carries
Outcomes(res) == IF res.tag = "Ok" THEN res.value ELSE <<>>

\* the /send response has one result and one error slot per submitted action
WellFormedSend(r) ==
    /\ Answered(r)
    /\ r.body.json = "send"
    /\ Len(r.body.action_results) = Len(call.ids)
    /\ Len(r.body.action_errors) = Len(call.ids)

\* the outcome of action i according to the response
OutcomeOf(body, i) ==
    IF body.action_errors[i].t = "error"
    THEN Err(body.action_errors[i])
    ELSE IF body.action_results[i].t = "item"
         THEN Ok(Some(body.action_results[i]))
         ELSE Ok(None)

\* C6: modify returns exactly one outcome per submitted action, outcome i
\* being the outcome of submitted action i.
C6_OneOutcomePerAction ==
    InModify /\ pc = "done" /\ WellFormedSend(response) =>
        /\ Len(Outcomes(result)) = Len(call.ids)
        /\ \A i \in DOMAIN Outcomes(result) :
               Outcomes(result)[i] = OutcomeOf(response.body, i)

\* C7: the outcome of action i is Err(action_errors[i]) when that error is
\* present, otherwise Ok(Some(item)) for an item object and Ok(None) for a
\* bare boolean; a failed action does not fail the batch, the call returns
\* Ok with all the outcomes.
C7_OutcomesZipResultsAndErrors ==
    InModify /\ pc = "done" /\ WellFormedSend(response) =>
        \A i \in DOMAIN call.ids :
            /\ result.tag = "Ok"
            /\ i \in DOMAIN result.value
            /\ result.value[i] = OutcomeOf(response.body, i)

\* C8: when action_results or action_errors does not have as many elements
\* as the request had actions, modify returns a decode error.
C8_LengthMismatchIsDecodeError ==
    /\ InModify /\ pc = "done"
    /\ Answered(response) /\ response.body.json = "send"
    /\ \/ Len(response.body.action_results) # Len(call.ids)
       \/ Len(response.body.action_errors) # Len(call.ids)
    => /\ result.tag = "Err"
       /\ result.error.variant = "ParseJSON"

\* what modify writes to the log or to stderr for a response: the function
\* has no dbg!, log or print statement
ModifyDiagnostics(r) == {}

\* action i of the response reports both an error and a truthy result
SuccessAndFailure(body, i) ==
    /\ body.action_errors[i].t = "error"
    /\ \/ body.action_results[i].t = "item"
       \/ body.action_results[i].t = "bool" /\ body.action_results[i].b

\* C9: when a response reports both an error and a truthy result for the
\* same action, modify surfaces it as an error or a diagnostic and does not
\* panic.
C9_SuccessAndFailureIsSurfaced ==
    /\ InModify /\ pc \in {"done", "panicked"}
    /\ WellFormedSend(response)
    /\ \E i \in DOMAIN call.ids : SuccessAndFailure(response.body, i)
    => /\ pc = "done"
       /\ \/ result.tag = "Err"
          \/ \E i \in DOMAIN Outcomes(result) : Outcomes(result)[i].tag = "Err"
          \/ ModifyDiagnostics(response) # {}

\* ------------------------------------------------------------------------
\* C10
\* ------------------------------------------------------------------------

\* C10: every transport failure of a request made by get, list_all or modify
\* (connection failure or non-2xx status) is returned to the caller as an
\* error that is not the decode error; the body of a non-2xx response is not
\* decoded into a result and the failure does not terminate the program.
C10_TransportFailureIsAnError ==
    TransportFailure(response) =>
        /\ pc = "done"
        /\ result.tag = "Err"
        /\ result.error.variant # "ParseJSON"

\* ------------------------------------------------------------------------
\* C11
\* ------------------------------------------------------------------------

\* the body {"list": {}}
IsEmptyObjectList(r) ==
    Answered(r) /\ r.body.json = "object" /\ DOMAIN r.body.list = {}

\* C11: a /get response whose `list` is an empty JSON object is classified
\* Parsed with an empty item map, never NoMore: list_all takes it for a page
\* and goes on to the next request, get returns an empty reading list.
C11_EmptyObjectIsParsed ==
    IsEmptyObjectList(response) /\ (InGet \/ InListAll) =>
        /\ Classified(response).state = "Parsed"
        /\ DOMAIN Classified(response).r.list = {}
        /\ InListAll =>
               /\ pc = "list_await"
               /\ Len(pages) >= 1
               /\ DOMAIN pages[Len(pages)] = {}
               /\ Len(requests) = Len(pages) + 1
        /\ InGet => pc = "done" /\ result = Ok(<<>>)

\* list_all received {"list": {}} after a page that had entries
C11_Witness ==
    /\ InListAll /\ IsEmptyObjectList(response)
    /\ Len(pages) = 2 /\ DOMAIN pages[1] # {}

\* ------------------------------------------------------------------------
\* C12
\* ------------------------------------------------------------------------

\* the body {"list": []}
IsEmptyArrayList(r) ==
    Answered(r) /\ r.body.json = "array" /\ r.body.list = <<>>

\* C12: a /get response whose `list` is an empty JSON array is classified
\* NoMore, not Parsed and not Error: list_all stops and returns Ok with what
\* it accumulated, get returns Ok.
C12_EmptyArrayIsNoMore ==
    IsEmptyArrayList(response) /\ (InGet \/ InListAll) =>
        /\ Classified(response).state = "NoMore"
        /\ pc = "done"
        /\ result = Ok(reading_list)
        /\ InListAll => Len(requests) = Len(pages) + 1

\* list_all received {"list": []} after a page that had entries
C12_Witness ==
    /\ InListAll /\ IsEmptyArrayList(response)
    /\ Len(pages) = 1 /\ DOMAIN pages[1] # {}

\* ------------------------------------------------------------------------
\* C13
\* ------------------------------------------------------------------------

\* a body that is not well-formed JSON, or whose `list` is neither an object
\* nor an array
IsMalformedOrOtherShape(r) ==
    Answered(r) /\ r.body.json \in {"truncated", "other"}

\* C13: a /get response body that is malformed JSON or has neither the map
\* shape nor the array shape is classified Error, and get and list_all return
\* Err: it is never turned into an Ok result.
C13_UndecodableBodyIsErr ==
    IsMalformedOrOtherShape(response) /\ (InGet \/ InListAll) =>
        /\ Classified(response).state = "Error"
        /\ pc = "done"
        /\ result.tag = "Err"
        /\ result.error = ParseJSON(Classified(response).e)

\* list_all received a truncated body after a page that had entries
C13_Witness ==
    /\ InListAll /\ Answered(response) /\ response.body.json = "truncated"
    /\ Len(pages) = 1 /\ DOMAIN pages[1] # {}
    /\ pc = "done"

\* ------------------------------------------------------------------------
\* C14
\* ------------------------------------------------------------------------

\* C14: in every reading list returned by get or list_all, the key of each
\* entry equals the entry's own item_id, for Item and DeletedItem alike,
\* whatever keys the server used in the `list` object of the response.
C14_KeyIsItemId ==
    (InGet \/ InListAll) /\ pc = "done" /\ result.tag = "Ok" =>
        \A k \in DOMAIN result.value : result.value[k].item_id = k

\* ------------------------------------------------------------------------
\* C15
\* ------------------------------------------------------------------------

\* C15: a call of modify sends exactly one POST to /send, whose payload holds
\* the consumer_key, the access_token and all the submitted actions in the
\* order they were submitted: a batch is never split.
C15_OneSendWithWholeBatch ==
    InModify =>
        /\ Len(requests) = 1
        /\ requests[1].method = "POST"
        /\ requests[1].uri = <<ENDPOINT, "/send">>
        /\ DOMAIN requests[1].payload = {"consumer_key", "access_token", "actions"}
        /\ requests[1].payload.consumer_key = client.consumer_key
        /\ requests[1].payload.access_token = client.authorization_code
        /\ DOMAIN requests[1].payload.actions = DOMAIN call.ids
        /\ \A i \in DOMAIN call.ids :
               requests[1].payload.actions[i].id = call.ids[i]

\* a batch of two different items was sent and answered
C15_Witness ==
    /\ InModify /\ pc = "done"
    /\ Len(call.ids) = 2 /\ call.ids[1] # call.ids[2]

\* ------------------------------------------------------------------------
\* C16
\* ------------------------------------------------------------------------

\* C16: each action of a /send payload is a JSON object whose `action` field
\* is the lowercase name of the variant and whose other fields are exactly
\* `url` and `time` for Add, `item_id` and `time` for the actions on one item.
C16_ActionIsJsonObject ==
    InModify =>
        \A i \in DOMAIN requests[1].payload.actions :
            LET a == ReadAction(requests[1].payload.actions[i])
            IN  /\ a.json = "object"
                /\ a.fields["action"] \in {"archive", "favorite", "add"}
                /\ DOMAIN a.fields =
                      IF a.fields["action"] = "add"
                      THEN {"action", "url", "time"}
                      ELSE {"action", "item_id", "time"}

\* ------------------------------------------------------------------------
\* C17
\* ------------------------------------------------------------------------

\* the Action each wrapper hands to modify
WrapperAction(op) ==
    CASE op = "mark_as_read" -> "Archive"
      [] op = "mark_as_favorite" -> "Favorite"
      [] op = "add_urls" -> "Add"

AddSucceeded(r) ==
    /\ call.op = "add_urls" /\ Len(call.ids) = 1
    /\ WellFormedSend(r) /\ r.status = 200
    /\ r.body.action_errors[1].t = "null"
    /\ r.body.action_results[1].t = "item"

\* C18: after add_urls([u]) succeeds, the outcome of the add is a
\* ModifiedItem whose item_id is the item_id of the item the service made of
\* u (the item a following list_all shows once under given_url u, and no
\* longer shows after a successful delete of it). What list_all shows is the
\* remote service's state; the outcome is what the client hands back.
C18_AddOutcomeNamesTheItem ==
    pc = "done" /\ AddSucceeded(response) =>
        /\ result.tag = "Ok"
        /\ Len(result.value) = 1
        /\ result.value[1].tag = "Ok"
        /\ result.value[1].value =
               Some(response.body.action_results[1])

\* ------------------------------------------------------------------------
\* C19
\* ------------------------------------------------------------------------

\* C19: Item::url returns resolved_url when it is non-empty and given_url
\* otherwise.
C19_UrlPrefersResolved ==
    call.op = "Item::url" =>
        /\ call.item.resolved_url # "" => result.value = call.item.resolved_url
        /\ call.item.resolved_url = "" => result.value = call.item.given_url

\* url was asked of an item whose two URLs are non-empty and different
C19_Witness ==
    /\ call.op = "Item::url"
    /\ call.item.resolved_url # "" /\ call.item.given_url # ""
    /\ call.item.resolved_url # call.item.given_url
    /\ result.value = call.item.resolved_url

\* ------------------------------------------------------------------------
\* C20
\* ------------------------------------------------------------------------

\* the URL the claim calls effective: resolved_url, or given_url when
\* resolved_url is empty
EffectiveUrl(item) ==
    IF item.resolved_url # "" THEN item.resolved_url ELSE item.given_url

\* C20: Item::title returns resolved_title when it is non-empty, else
\* given_title when that is non-empty, else the effective URL; it is never
\* empty for an item whose given_url or resolved_url is non-empty.
C20_TitleFallsBack ==
    call.op = "Item::title" =>
        /\ call.item.resolved_title # "" =>
               result.value = call.item.resolved_title
        /\ call.item.resolved_title = "" /\ call.item.given_title # "" =>
               result.value = call.item.given_title
        /\ call.item.resolved_title = "" /\ call.item.given_title = "" =>
               result.value = EffectiveUrl(call.item)
        /\ call.item.given_url # "" \/ call.item.resolved_url # "" =>
               result.value # ""

\* title was asked of an item with two different non-empty titles
C20_Witness ==
    /\ call.op = "Item::title"
    /\ call.item.resolved_title # "" /\ call.item.given_title # ""
    /\ call.item.resolved_title # call.item.given_title
    /\ result.value = call.item.resolved_title

\* ------------------------------------------------------------------------
\* C21
\* ------------------------------------------------------------------------

\* C21: decoding is_article and is_index accepts exactly the strings "0"
\* (false) and "1" (true), any other value is a decode error, and encoding a
\* boolean and decoding the encoding yields the boolean.
C21_BoolWireFormat ==
    /\ call.op = "deserialize_string_to_bool" =>
          /\ call.value = JsonString("0") =>
                result.value.ok /\ result.value.val = FALSE
          /\ call.value = JsonString("1") =>
                result.value.ok /\ result.value.val = TRUE
          /\ call.value \notin {JsonString("0"), JsonString("1")} =>
                ~result.value.ok
    /\ call.op = "bool_round_trip" =>
          /\ call.wire \in {JsonString("0"), JsonString("1")}
          /\ result.value.ok /\ result.value.val = call.b

\* a string that is neither "0" nor "1" was rejected
C21_Witness ==
    /\ call.op = "deserialize_string_to_bool"
    /\ call.value = JsonString("true")
    /\ ~result.value.ok

\* ------------------------------------------------------------------------
\* C22
\* ------------------------------------------------------------------------

\* C22: an entry of the `list` map decodes as Item iff it satisfies every
\* field rule of Item, as DeletedItem iff it does not but has a string
\* item_id, and the whole page is a decode error otherwise.
C22_ItemThenDeletedItem ==
    call.op = "parse_all_response" =>
        LET e == call.entry
            c == result.value
        IN  /\ ItemFieldRules(e) <=>
                  c.state = "Parsed" /\ c.r.list[call.key].type = "Item"
            /\ ~ItemFieldRules(e) /\ HasStringItemId(e) <=>
                  c.state = "Parsed" /\ c.r.list[call.key].type = "DeletedItem"
            /\ ~HasStringItemId(e) <=> c.state = "Error"
            /\ c.state = "Parsed" => c.r.list[call.key].item_id = e.item_id.s

\* an entry with a string item_id and an is_article that is not "0" or "1"
\* was decoded as DeletedItem
C22_Witness ==
    /\ call.op = "parse_all_response"
    /\ HasStringItemId(call.entry)
    /\ call.entry.is_article = JsonString("2")
    /\ call.entry.word_count = JsonString("12") /\ call.entry.rest = "present"
    /\ result.value.state = "Parsed"
    /\ result.value.r.list[call.key].type = "DeletedItem"

\* ------------------------------------------------------------------------
\* C23
\* ------------------------------------------------------------------------

\* the keys of Client::auth
AuthKeys == {"consumer_key", "access_token"}

\* C23: the body of the /get request of get has a key for a query field
\* (state, favorite, tag, content_type, sort, detailType, search, domain,
\* since, count, offset) iff the caller set that field; with nothing set it
\* has only the auth fields consumer_key and access_token.
C23_KeyIffFieldSet ==
    InGet =>
        LET body == requests[1].payload
        IN  /\ \A f \in GetInputFields :
                   SerdeName(f) \in DOMAIN body <=> call.get_input[f].some
            /\ AuthKeys \subseteq DOMAIN body
            /\ DOMAIN body \subseteq AuthKeys \cup
                   {"state", "favorite", "tag", "content_type", "sort",
                    "detailType", "search", "domain", "since", "count", "offset"}
            /\ call.get_input = GetInputDefault => DOMAIN body = AuthKeys

\* get was called with detail_type set and count not set
C23_Witness ==
    /\ InGet
    /\ call.get_input["detail_type"].some /\ ~call.get_input["count"].some
    /\ "detailType" \in DOMAIN requests[1].payload
    /\ "count" \notin DOMAIN requests[1].payload

\* ------------------------------------------------------------------------
\* C24
\* ------------------------------------------------------------------------

\* the pages merged in the order they were received
RECURSIVE MergePages(_)
MergePages(pgs) ==
    IF pgs = <<>> THEN EmptyReadingList
    ELSE Extend(MergePages(SubSeq(pgs, 1, Len(pgs) - 1)), pgs[Len(pgs)])

\* what a call returns when it runs alone and receives the responses the
\* call of frame f received
AloneResult(f) ==
    IF f.call.op \in {"get", "list_all"}
    THEN LET c == parse_all_response(f.response.body)
         IN  IF c.state = "Error" THEN Err(ParseJSON(c.e))
             ELSE Ok(MergePages(f.pages))
    ELSE [tag |-> "Unit"]

\* the call of frame f was not disturbed
Undisturbed(f) ==
    /\ f.pc = "done" => f.result = AloneResult(f)
    /\ f.call.op = "list_all" /\ f.pc # "panicked" =>
           /\ Len(f.requests) = Len(f.pages) + 1
           /\ \A n \in DOMAIN f.requests :
                  f.requests[n].payload["offset"] = (n - 1) * DEFAULT_COUNT

\* C24: concurrent get, list_all and modify calls on one Client do not
\* interfere: every list_all call has its own accumulator and offset, the
\* result of a call under any interleaving is its result when run alone
\* against the same responses, and the credentials are never modified.
C24_NoInterference ==
    /\ client = [consumer_key |-> "key", authorization_code |-> "code"]
    /\ Undisturbed(Running)
    /\ Undisturbed(others)

\* a list_all call returned two merged pages while another list_all call,
\* which received other pages, is in flight
C24_Witness ==
    /\ InListAll /\ pc = "done" /\ result.tag = "Ok" /\ Len(pages) = 2
    /\ others.call.op = "list_all" /\ others.pc = "list_await"
    /\ Len(others.pages) = 1 /\ others.pages[1] # pages[1]

\* ------------------------------------------------------------------------
\* C25
\* ------------------------------------------------------------------------

\* the path ends in the file name index.html or index.php
EndsInIndexFile(path) ==
    /\ Len(path) >= 2
    /\ path[Len(path)] \in {"index.html", "index.php"}
    /\ path[Len(path) - 1] = "/"

\* C25: for a URL that parses with a host, cleanup_url gives the same result
\* for a path ending in the file name index.html or index.php as for the URL
\* with that file name removed, and the same result with and without a
\* trailing '/'.
C25_IndexAndSlashInsensitive ==
    call.op = "cleanup_url" /\ call.url.ok /\ call.url.host # NoHost =>
        LET u == call.url
            n == Len(u.path)
        IN  /\ EndsInIndexFile(u.path) =>
                   result = cleanup_url([u EXCEPT !.path = SubSeq(u.path, 1, n - 1)])
            /\ result = cleanup_url([u EXCEPT !.path = Append(u.path, "/")])

\* ------------------------------------------------------------------------
\* C26
\* ------------------------------------------------------------------------

\* the `list` of the body is a non-empty JSON array of valid items
IsNonEmptyArrayOfItems(r) ==
    /\ Answered(r) /\ r.body.json = "array" /\ r.body.list # <<>>
    /\ DeserializeEmptyReadingListResponse(r.body).ok

\* both decode attempts fail on the body
BothAttemptsFail(r) ==
    /\ Answered(r)
    /\ ~DeserializeReadingListResponse(r.body).ok
    /\ ~DeserializeEmptyReadingListResponse(r.body).ok

\* C26: a /get response whose `list` is a non-empty JSON array of valid items
\* is classified Error, not Parsed and not NoMore, and the error carried is
\* the decode error of the first (map shape) attempt; the same first-attempt
\* error is carried when both decode attempts fail.
C26_ErrorIsOfFirstAttempt ==
    (InGet \/ InListAll)
    /\ (IsNonEmptyArrayOfItems(response) \/ BothAttemptsFail(response)) =>
        /\ Classified(response).state = "Error"
        /\ Classified(response).e = DeserializeReadingListResponse(response.body).err
        /\ Classified(response).e.target = "ReadingListResponse"
        /\ result = Err(ParseJSON(DeserializeReadingListResponse(response.body).err))

\* list_all received a non-empty array of valid items
C26_Witness ==
    /\ InListAll /\ IsNonEmptyArrayOfItems(response)
    /\ pc = "done" /\ result.tag = "Err"
    /\ result.error.source.target = "ReadingListResponse"

\* ------------------------------------------------------------------------
\* C27
\* ------------------------------------------------------------------------

\* C27: during a list_all call the accumulator only grows: no step of the
\* call removes a key, so after each merged page the key set of the
\* accumulator is a superset of the key set before the merge.
C27_AccumulatorOnlyGrows ==
    [][InListAll /\ InListAll' =>
           DOMAIN reading_list \subseteq DOMAIN reading_list']_vars

\* the second page of a list_all call repeated a key and added one
C27_Witness ==
    /\ InListAll /\ Len(pages) = 2
    /\ DOMAIN pages[1] = {"1"} /\ DOMAIN pages[2] = {"1", "2"}
    /\ DOMAIN reading_list = {"1", "2"}

\* ------------------------------------------------------------------------
\* C28
\* ------------------------------------------------------------------------

\* the last answer to the call is a Parsed page
LastAnswerParsed ==
    Answered(response) /\ Classified(response).state = "Parsed"

\* the last answer to the call is NoMore or a body that does not decode
LastAnswerEnds ==
    Answered(response) /\ Classified(response).state \in {"NoMore", "Error"}

\* C28: list_all ends when the server answers NoMore or a body that does not
\* decode, and only then: a Parsed page, be its map empty, does not end the
\* loop, it increments the page offset and triggers another request, so the
\* call keeps running for as long as the server answers Parsed pages.
C28_OnlyNoMoreOrErrorEnds ==
    InListAll =>
        /\ LastAnswerEnds => pc = "done"
        /\ pc = "done" => LastAnswerEnds
        /\ LastAnswerParsed =>
               /\ pc = "list_await"
               /\ Len(requests) >= 1
               /\ requests[Len(requests)].uri = <<ENDPOINT, "/get">>
               /\ pages # <<>> /\ pages[Len(pages)] = Classified(response).r.list

\* ------------------------------------------------------------------------
\* C29
\* ------------------------------------------------------------------------

\* C29: for every page index N reached by list_all, N * 5000 fits in a u32:
\* the offset sent is the mathematical value N * 5000, without wrap-around
\* and without overflow panic, however many Parsed pages the server returns.
\* (N * 5000 is compared after division by 8, which both sides are
\* multiples of.)
C29_OffsetFitsInU32 ==
    InListAll =>
        /\ offset <= LastFittingPage
        /\ pc = "list_await" /\ requests # <<>> =>
               /\ requests[Len(requests)].payload["offset"] % 8 = 0
               /\ requests[Len(requests)].payload["offset"] \div 8 =
                      offset * (DEFAULT_COUNT \div 8)
        /\ pc = "panicked" =>
               result.message # "attempt to multiply with overflow"

\* ------------------------------------------------------------------------
\* C30
\* ------------------------------------------------------------------------

\* the ids (keys of type ItemId) of all the pages received
AllPageIds == UNION {DOMAIN pages[i] : i \in DOMAIN pages}

\* the sum of the sizes of the first n pages received
RECURSIVE SumOfPageSizes(_)
SumOfPageSizes(n) ==
    IF n = 0 THEN 0
    ELSE SumOfPageSizes(n - 1) + Cardinality(DOMAIN pages[n])

TypeOK ==
    /\ pc \in {"idle", "get_await", "list_await", "modify_await", "done", "panicked"}
    /\ offset \in 0..MaxPages
    /\ Len(pages) <= MaxPages

====
